---- MODULE Spec2Model ----
(***************************************************************************)
(* Model of the fingerprint-to-transaction ledger service:                 *)
(*   server/config/database.ts    (DatabaseService, fingerprint_logs)      *)
(*   server/routes/fingerprints.ts (POST /log, GET /fingerprints...)       *)
(*   server/middleware/auth.ts, validation.ts, server/utils/helpers.ts     *)
(* Strings are sequences of one-character strings, so that slice, regex    *)
(* tests and length checks are computed as the code computes them.         *)
(* Every `await` of a handler is a scheduling point: the requests in       *)
(* flight interleave at their SQL statements.                              *)
(***************************************************************************)
EXTENDS Integers, Sequences, FiniteSets, TLC

-----------------------------------------------------------------------------
(* Bounds of the model *)

\* number of requests that can be in flight at once
NumProcs == 2

\* number of requests the server receives in one behaviour
MaxRequests == 2

\* largest value of the CURRENT_TIMESTAMP clock
MaxClock == 1

\* number of calls made to TrackerContract in one behaviour
MaxCalls == 3

Procs == 1..NumProcs

-----------------------------------------------------------------------------
(* Strings *)

Rep(c, n) == [i \in 1..n |-> c]

Min(a, b) == IF a < b THEN a ELSE b

Max(a, b) == IF a > b THEN a ELSE b

HexChars ==
  {"0","1","2","3","4","5","6","7","8","9",
   "a","b","c","d","e","f","A","B","C","D","E","F"}

\* String.prototype.slice(start, end) with JavaScript's index normalisation
JsSlice(s, start, end) ==
  LET n == Len(s)
      from == IF start < 0 THEN Max(n + start, 0) ELSE Min(start, n)
      to == IF end < 0 THEN Max(n + end, 0) ELSE Min(end, n)
  IN IF from >= to THEN <<>> ELSE SubSeq(s, from + 1, to)

\* String.prototype.slice(start)
JsSliceFrom(s, start) == JsSlice(s, start, Len(s))

\* String.prototype.replace(pattern, '') with a string pattern: removes the
\* first occurrence only
JsReplaceFirst(s, pat) ==
  LET k == Len(pat)
      hits == {i \in 1..(Len(s) - k + 1) : SubSeq(s, i, i + k - 1) = pat}
  IN IF k = 0 \/ hits = {} THEN s
     ELSE LET i == CHOOSE h \in hits : \A g \in hits : h <= g
          IN SubSeq(s, 1, i - 1) \o SubSeq(s, i + k, Len(s))

IsPrefix(s, t) == Len(s) <= Len(t) /\ SubSeq(t, 1, Len(s)) = s

Ellipsis == <<".", ".", ".">>

\* /^0x[a-fA-F0-9]{n}$/
Matches0xHex(s, n) ==
  /\ Len(s) = n + 2
  /\ s[1] = "0"
  /\ s[2] = "x"
  /\ \A i \in 3..(n + 2) : s[i] \in HexChars

\* /^[a-fA-F0-9]{n}$/
MatchesHex(s, n) ==
  /\ Len(s) = n
  /\ \A i \in 1..n : s[i] \in HexChars

-----------------------------------------------------------------------------
(* JavaScript values of the request: a string, a number or undefined *)

Str(s) == [t |-> "string", s |-> s, n |-> 0]

Num(n) == [t |-> "number", s |-> <<>>, n |-> n]

Undefined == [t |-> "undefined", s |-> <<>>, n |-> 0]

\* JavaScript truthiness of such a value
Truthy(v) ==
  CASE v.t = "string" -> v.s # <<>>
    [] v.t = "number" -> v.n # 0
    [] OTHER -> FALSE

Null == [t |-> "null", s |-> <<>>, n |-> 0]

DigitChars == <<"0","1","2","3","4","5","6","7","8","9">>

DigitVal(c) == (CHOOSE i \in 1..10 : DigitChars[i] = c) - 1

AllDigits(s) == \A i \in 1..Len(s) : \E k \in 1..10 : DigitChars[k] = s[i]

RECURSIVE ParseDigits(_)
ParseDigits(s) ==
  IF s = <<>> THEN 0
  ELSE 10 * ParseDigits(SubSeq(s, 1, Len(s) - 1)) + DigitVal(s[Len(s)])

\* Number(v): the numeric coercion of a value ('' is 0, text that is not a
\* decimal integer is NaN, undefined is NaN)
JsNumber(v) ==
  CASE v.t = "number" -> [nan |-> FALSE, n |-> v.n]
    [] v.t = "null" -> [nan |-> FALSE, n |-> 0]
    [] v.t = "string" /\ AllDigits(v.s) -> [nan |-> FALSE, n |-> ParseDigits(v.s)]
    [] v.t = "string" /\ Len(v.s) > 1 /\ v.s[1] = "-" /\ AllDigits(Tail(v.s)) ->
         [nan |-> FALSE, n |-> 0 - ParseDigits(Tail(v.s))]
    [] OTHER -> [nan |-> TRUE, n |-> 0]

-----------------------------------------------------------------------------
(* Error messages, as sequences of words, so that message.includes(...) is   *)
(* a search and not a tag                                                    *)

\* String.prototype.includes at word granularity
Includes(msg, pat) ==
  \E i \in 1..(Len(msg) - Len(pat) + 1) : SubSeq(msg, i, i + Len(pat) - 1) = pat

MsgAlreadyExists == <<"Transaction", "already", "exists", "for", "this", "fingerprint">>

MsgParseExisting == <<"There", "was", "an", "error", "parsing", "the", "existing", "record">>

MsgUniqueConstraint ==
  <<"SQLITE_CONSTRAINT:", "UNIQUE", "constraint", "failed:", "fingerprint_logs.fingerprint_id">>

MsgRetrieveFailed == <<"Failed", "to", "retrieve", "updated", "fingerprint", "record">>

MsgNoHash == <<"No", "fingerprint", "found", "for", "this", "hash">>

MsgNoId == <<"No", "fingerprint", "found", "with", "this", "ID">>

\* the catch block of addTransactionToFingerprint wraps every error
WrapAddError(msg) == <<"Failed", "to", "add", "transaction:">> \o msg

-----------------------------------------------------------------------------
(* middleware/auth.ts *)

BearerPrefix == <<"B", "e", "a", "r", "e", "r", " ">>

\* req.headers['x-api-key'] || req.headers['authorization']?.replace('Bearer ', '')
PresentedApiKey(headers) ==
  IF Truthy(headers.xApiKey) THEN headers.xApiKey
  ELSE IF headers.authorization.t = "string"
       THEN Str(JsReplaceFirst(headers.authorization.s, BearerPrefix))
       ELSE Undefined

\* a check that accepts any key that is present
ValidateApiKeyAnyKey(headers, expected) ==
  LET apiKey == PresentedApiKey(headers)
  IN IF ~Truthy(expected) THEN 500
     ELSE IF ~Truthy(apiKey) THEN 401
     ELSE 0

\* The status validateApiKey answers with, 0 when it calls next()
ValidateApiKey(headers, expected) ==
  LET apiKey == PresentedApiKey(headers)
  IN IF ~Truthy(expected) THEN 500
     ELSE IF ~Truthy(apiKey) THEN 401
     ELSE IF apiKey # expected THEN 401
     ELSE 0

-----------------------------------------------------------------------------
(* middleware/validation.ts *)

\* Date.parse(s) is not NaN.  The requests of this model carry timestamps in
\* the Date.prototype.toISOString format (YYYY-MM-DDTHH:mm:ss.sssZ) or text
\* that no date format accepts; the recogniser covers those.
DateParses(s) ==
  /\ Len(s) = 24
  /\ \A i \in {1,2,3,4,6,7,9,10,12,13,15,16,18,19,21,22,23} : AllDigits(<<s[i]>>)
  /\ s[5] = "-" /\ s[8] = "-" /\ s[11] = "T"
  /\ s[14] = ":" /\ s[17] = ":" /\ s[20] = "." /\ s[24] = "Z"

\* Date.now() in milliseconds, from the model's clock of seconds
DateNow(now) == now * 1000

DayMs == 86400000

\* a length check that lets every string through
FingerprintIdLengthAny(s) == TRUE

FingerprintIdLengthOk(s) == ~(Len(s) < 10 \/ Len(s) > 100)

\* TRUE when validateCreateTransaction calls next(); otherwise it answers 400
ValidateCreateTransaction(body, now) ==
  /\ Truthy(body.fingerprintId) /\ body.fingerprintId.t = "string"
  /\ FingerprintIdLengthOk(body.fingerprintId.s)
  /\ Truthy(body.walletAddress) /\ body.walletAddress.t = "string"
  /\ Matches0xHex(body.walletAddress.s, 40)
  /\ Truthy(body.transactionHash) /\ body.transactionHash.t = "string"
  /\ Matches0xHex(body.transactionHash.s, 64)
  /\ Truthy(body.hashedFingerprint) /\ body.hashedFingerprint.t = "string"
  /\ MatchesHex(body.hashedFingerprint.s, 64)
  /\ CASE body.timestamp.t = "string" -> DateParses(body.timestamp.s)
       [] body.timestamp.t = "number" ->
            ~(body.timestamp.n < 0 \/ body.timestamp.n > DateNow(now) + DayMs)
       [] OTHER -> FALSE

\* TRUE when validateFingerprintId calls next()
ValidateFingerprintId(param) ==
  /\ Truthy(param) /\ param.t = "string"
  /\ FingerprintIdLengthOk(param.s)

\* TRUE when validateFingerprintHash calls next()
ValidateFingerprintHash(param) ==
  /\ Truthy(param)
  /\ Matches0xHex(param.s, 64)

\* TRUE when validateGetFingerprintsQuery calls next(); page and limit are
\* the strings of req.query, Undefined when the parameter is absent
ValidateGetFingerprintsQuery(query) ==
  /\ ~(Truthy(query.page)
        /\ (JsNumber(query.page).nan \/ JsNumber(query.page).n < 1))
  /\ ~(Truthy(query.limit)
        /\ (JsNumber(query.limit).nan \/ JsNumber(query.limit).n < 1
              \/ JsNumber(query.limit).n > 100))

-----------------------------------------------------------------------------
(* The transactions column: JSON text.  A blob is the text of a value       *)
(* (kind "json"), text that JSON.parse rejects (kind "garbage") or NULL.    *)

JsonStringify(value) == [kind |-> "json", val |-> value]

GarbageBlob == [kind |-> "garbage", val |-> <<>>]

NullBlob == [kind |-> "null", val |-> <<>>]

\* truthiness of the column value: NULL is falsy
BlobTruthy(blob) == blob.kind # "null"

\* JSON.parse throws on this blob
JsonParseThrows(blob) == blob.kind # "json"

JsonParse(blob) == blob.val

\* tx.<name> of a stored entry: undefined for a property the object lacks
Field(tx, name) == IF name \in DOMAIN tx THEN tx[name] ELSE Undefined

-----------------------------------------------------------------------------
(* config/database.ts: the fingerprint_logs table and its statements.       *)
(* rows is the table in rowid order.                                        *)

\* a lookup on fingerprint_id alone
SelectByIdOnly(table, fingerprintId, fingerprintHash) ==
  LET hits == {i \in 1..Len(table) : table[i].fingerprint_id = fingerprintId}
  IN IF hits = {} THEN <<>>
     ELSE <<table[CHOOSE i \in hits : \A j \in hits : i <= j]>>

\* SELECT id, transactions ... WHERE fingerprint_id = ? AND fingerprint_hash = ?
\* (db.get: the row, or undefined, as a sequence of at most one row)
SelectByIdAndHash(table, fingerprintId, fingerprintHash) ==
  LET hits == {i \in 1..Len(table) :
                 /\ table[i].fingerprint_id = fingerprintId
                 /\ table[i].fingerprint_hash = fingerprintHash}
  IN IF hits = {} THEN <<>>
     ELSE <<table[CHOOSE i \in hits : \A j \in hits : i <= j]>>

\* SELECT * ... WHERE fingerprint_id = ?
SelectById(table, fingerprintId) ==
  LET hits == {i \in 1..Len(table) : table[i].fingerprint_id = fingerprintId}
  IN IF hits = {} THEN <<>>
     ELSE <<table[CHOOSE i \in hits : \A j \in hits : i <= j]>>

\* SELECT * ... WHERE fingerprint_hash = ?  The statement has no ORDER BY:
\* db.get may return any of the matching rows.
SelectByHash(table, fingerprintHash) ==
  {table[i] : i \in {j \in 1..Len(table) : table[j].fingerprint_hash = fingerprintHash}}

\* a column without the UNIQUE constraint
UniqueViolationOff(table, fingerprintId) == FALSE

\* fingerprint_id TEXT UNIQUE NOT NULL
UniqueViolation(table, fingerprintId) ==
  \E i \in 1..Len(table) : table[i].fingerprint_id = fingerprintId

\* an update that also stamps created_at
UpdateRowRecreate(table, id, blob, now) ==
  [i \in 1..Len(table) |->
     IF table[i].id = id
     THEN [table[i] EXCEPT !.transactions = blob, !.created_at = now, !.updated_at = now]
     ELSE table[i]]

\* UPDATE ... SET transactions = ?, updated_at = CURRENT_TIMESTAMP WHERE id = ?
UpdateRow(table, id, blob, now) ==
  [i \in 1..Len(table) |->
     IF table[i].id = id
     THEN [table[i] EXCEPT !.transactions = blob, !.updated_at = now]
     ELSE table[i]]

\* INSERT INTO fingerprint_logs (fingerprint_id, fingerprint_hash, transactions)
\* id is AUTOINCREMENT, created_at and updated_at default to CURRENT_TIMESTAMP
InsertRow(table, id, fingerprintId, fingerprintHash, blob, now) ==
  Append(table, [id |-> id,
                 fingerprint_id |-> fingerprintId,
                 fingerprint_hash |-> fingerprintHash,
                 transactions |-> blob,
                 created_at |-> now,
                 updated_at |-> now])

\* const newTransaction = { txHash, walletAddress, timestamp }
NewTransaction(data) ==
  [txHash |-> data.transactionHash,
   walletAddress |-> data.walletAddress,
   timestamp |-> data.timestamp]

\* transactions.some((tx) => tx.hash === transactionHash)
TransactionExists(transactions, transactionHash) ==
  \E i \in 1..Len(transactions) : Field(transactions[i], "hash") = transactionHash

\* a push that puts the new entry first
PushFront(transactions, newTransaction) == <<newTransaction>> \o transactions

\* transactions.push(newTransaction)
Push(transactions, newTransaction) == Append(transactions, newTransaction)

-----------------------------------------------------------------------------
(* utils/helpers.ts *)

\* a transform whose catch block leaves a marker entry instead of []
TransformFingerprintLogMarker(row) ==
  [id |-> row.id,
   fingerprintId |-> row.fingerprint_id,
   fingerprintHash |-> row.fingerprint_hash,
   transactions |-> IF ~BlobTruthy(row.transactions) THEN <<>>
                    ELSE IF JsonParseThrows(row.transactions)
                    THEN <<[error |-> Str(<<"x">>)]>>
                    ELSE JsonParse(row.transactions),
   createdAt |-> row.created_at,
   updatedAt |-> row.updated_at]

\* a transform that returns the list short of its last entry
TransformFingerprintLogTorn(row) ==
  [id |-> row.id,
   fingerprintId |-> row.fingerprint_id,
   fingerprintHash |-> row.fingerprint_hash,
   transactions |-> IF BlobTruthy(row.transactions) /\ ~JsonParseThrows(row.transactions)
                    THEN SubSeq(JsonParse(row.transactions), 1,
                                Max(1, Len(JsonParse(row.transactions)) - 1))
                    ELSE <<>>,
   createdAt |-> row.created_at,
   updatedAt |-> row.updated_at]

\* transformFingerprintLog: a blob that does not parse reads as []
TransformFingerprintLog(row) ==
  [id |-> row.id,
   fingerprintId |-> row.fingerprint_id,
   fingerprintHash |-> row.fingerprint_hash,
   transactions |-> IF BlobTruthy(row.transactions) /\ ~JsonParseThrows(row.transactions)
                    THEN JsonParse(row.transactions)
                    ELSE <<>>,
   createdAt |-> row.created_at,
   updatedAt |-> row.updated_at]

\* formatTimestamp(): new Date().toISOString(), at second `now` of the clock
FormatTimestamp(now) ==
  <<"2","0","2","5","-","0","1","-","0","1","T","0","0",":","0","0",":","0">>
    \o <<DigitChars[(now % 10) + 1]>> \o <<".","0","0","0","Z">>

\* a division that rounds down
FloorDiv(a, b) == a \div b

\* Math.ceil(a / b) for a >= 0, b > 0
CeilDiv(a, b) == (a + b - 1) \div b

\* calculatePagination(page, limit, total), on the numbers page and limit
\* coerce to
CalculatePagination(page, limit, total) ==
  LET totalPages == CeilDiv(total, JsNumber(limit).n)
  IN [page |-> page,
      limit |-> limit,
      total |-> total,
      totalPages |-> totalPages,
      hasMore |-> JsNumber(page).n < totalPages]

\* sanitizeSortField(sortBy, validFields)
SanitizeSortField(sortBy, validFields) ==
  IF \E i \in 1..Len(validFields) : validFields[i] = sortBy
  THEN sortBy
  ELSE validFields[1]

\* String.prototype.toUpperCase on the sort orders of the model
ToUpperCase(w) ==
  CASE w = "asc" -> "ASC"
    [] w = "desc" -> "DESC"
    [] w = "Asc" -> "ASC"
    [] OTHER -> w

\* a fallback to ascending order
SanitizeSortOrderAsc(sortOrder) ==
  LET normalized == ToUpperCase(sortOrder)
  IN IF normalized = "ASC" \/ normalized = "DESC" THEN normalized ELSE "ASC"

\* sanitizeSortOrder(sortOrder)
SanitizeSortOrder(sortOrder) ==
  LET normalized == ToUpperCase(sortOrder)
  IN IF normalized = "ASC" \/ normalized = "DESC" THEN normalized ELSE "DESC"

-----------------------------------------------------------------------------
(* getAllFingerprints: ORDER BY ... LIMIT ? OFFSET ? *)

\* the characters of the model in code-point order
Alphabet ==
  <<".", "0","1","2","3","4","5","6","7","8","9",
    "A","B","C","D","E","F","a","b","c","d","e","f","g","x">>

CharRank(c) == CHOOSE i \in 1..Len(Alphabet) : Alphabet[i] = c

\* s < t in SQLite's BINARY collation
TextLess(s, t) ==
  \E k \in 1..(Len(s) + 1) :
    /\ k <= Len(t)
    /\ \A i \in 1..(k - 1) : s[i] = t[i]
    /\ (k = Len(s) + 1 \/ CharRank(s[k]) < CharRank(t[k]))

\* row a may come before row b under ORDER BY column ASC
ColumnLeq(a, b, column) ==
  CASE column = "created_at" -> a.created_at <= b.created_at
    [] column = "updated_at" -> a.updated_at <= b.updated_at
    [] column = "fingerprint_id" ->
         a.fingerprint_id.s = b.fingerprint_id.s
           \/ TextLess(a.fingerprint_id.s, b.fingerprint_id.s)
    [] column = "fingerprint_hash" ->
         a.fingerprint_hash.s = b.fingerprint_hash.s
           \/ TextLess(a.fingerprint_hash.s, b.fingerprint_hash.s)

DbValidSortFields == <<"created_at", "updated_at", "fingerprint_id", "fingerprint_hash">>

\* a window that ignores OFFSET
LimitOnly(sorted, limit, offset) == SubSeq(sorted, 1, Min(limit, Len(sorted)))

\* LIMIT ? OFFSET ? on the sorted rows
LimitOffset(sorted, limit, offset) ==
  SubSeq(sorted, Min(offset, Len(sorted)) + 1, Min(offset + limit, Len(sorted)))

\* a SELECT without ORDER BY: the rows in any order
GetAllFingerprintsAnyOrder(table, limit, offset, sortBy, sortOrder) ==
  LET n == Len(table)
      orders == {f \in [1..n -> 1..n] : \A i, j \in 1..n : i # j => f[i] # f[j]}
  IN {[logs |-> LimitOffset([k \in 1..n |-> table[f[k]]], limit, offset), total |-> n] :
        f \in orders}

\* The results SELECT * ... ORDER BY finalSortBy finalSortOrder LIMIT ?
\* OFFSET ? can yield: rows with equal keys come in an order SQL leaves open
GetAllFingerprints(table, limit, offset, sortBy, sortOrder) ==
  LET n == Len(table)
      finalSortBy == IF \E i \in 1..4 : DbValidSortFields[i] = sortBy
                     THEN sortBy ELSE "created_at"
      finalSortOrder == IF ToUpperCase(sortOrder) \in {"ASC", "DESC"}
                        THEN ToUpperCase(sortOrder) ELSE "DESC"
      Before(a, b) == IF finalSortOrder = "ASC"
                      THEN ColumnLeq(a, b, finalSortBy)
                      ELSE ColumnLeq(b, a, finalSortBy)
      orders == {f \in [1..n -> 1..n] :
                   /\ \A i, j \in 1..n : i # j => f[i] # f[j]
                   /\ \A i, j \in 1..n : i < j => Before(table[f[i]], table[f[j]])}
  IN {[logs |-> LimitOffset([k \in 1..n |-> table[f[k]]], limit, offset), total |-> n] :
        f \in orders}

-----------------------------------------------------------------------------
(* routes/fingerprints.ts: shaping of GET /fingerprints *)

RouteValidSortFields == <<"created_at", "updated_at", "fingerprint_id", "wallet_address">>

\* prefix + '...' + suffix
Mask(s, head, tail) == JsSlice(s, 0, head) \o Ellipsis \o JsSliceFrom(s, 0 - tail)

\* a truncation that keeps ten characters
TruncateFingerprintIdTen(s) == JsSlice(s, 0, 10) \o Ellipsis

\* transformed.fingerprintId.slice(0, 8) + '...'
TruncateFingerprintId(s) == JsSlice(s, 0, 8) \o Ellipsis

\* the element of transformed.transactions?.map(...) for one entry
ShapeTransaction(tx) ==
  [tx EXCEPT
     !.txHash = IF Truthy(tx.txHash) THEN Str(Mask(tx.txHash.s, 10, 8)) ELSE Null,
     !.walletAddress = IF Truthy(tx.walletAddress)
                       THEN Str(Mask(tx.walletAddress.s, 6, 4)) ELSE Null]

\* the callback of logs.map(...) after transformFingerprintLog
ShapeListEntry(transformed, isAuthenticated) ==
  IF ~isAuthenticated
  THEN [id |-> transformed.id,
        fingerprintId |-> Str(TruncateFingerprintId(transformed.fingerprintId.s)),
        fingerprintHash |-> transformed.fingerprintHash,
        walletAddress |-> Str(Mask(transformed.fingerprintHash.s, 6, 4)),
        transactions |-> [i \in 1..Len(transformed.transactions) |->
                            ShapeTransaction(transformed.transactions[i])],
        createdAt |-> transformed.createdAt,
        updatedAt |-> transformed.updatedAt]
  ELSE transformed

-----------------------------------------------------------------------------
(* The requests the clients of the model send *)

Secret == <<"k", "1">>

WrongKey == <<"k", "2">>

NoHeaders == [xApiKey |-> Undefined, authorization |-> Undefined]

\* the header sets of the requests: no key, the key in X-API-Key, a wrong
\* key, the key as a bearer token
HeaderSets ==
  {NoHeaders,
   [NoHeaders EXCEPT !.xApiKey = Str(Secret)],
   [NoHeaders EXCEPT !.xApiKey = Str(WrongKey)],
   [NoHeaders EXCEPT !.authorization = Str(BearerPrefix \o Secret)]}

FpA == Rep("a", 10)

FpB == Rep("b", 100)

HashA == Rep("a", 64)

HashB == Rep("b", 64)

Prefixed(s) == <<"0", "x">> \o s

Tx1 == Prefixed(Rep("1", 64))

Tx2 == Prefixed(Rep("2", 64))

Wallet1 == Prefixed(Rep("c", 40))

IsoTime == FormatTimestamp(0)

MakeBody(fingerprintId, hashedFingerprint, transactionHash) ==
  [fingerprintId |-> fingerprintId,
   walletAddress |-> Str(Wallet1),
   transactionHash |-> transactionHash,
   hashedFingerprint |-> hashedFingerprint,
   timestamp |-> Str(IsoTime)]

\* well-formed bodies: two transactions of one fingerprint, the same
\* fingerprint id under a second hash, a second fingerprint id
ValidBodies ==
  {MakeBody(Str(FpA), Str(HashA), Str(Tx1)),
   MakeBody(Str(FpA), Str(HashA), Str(Tx2)),
   MakeBody(Str(FpA), Str(HashB), Str(Tx1)),
   MakeBody(Str(FpB), Str(HashA), Str(Tx1))}

\* bodies with one malformed field each
InvalidBodies ==
  {MakeBody(Str(Rep("a", 9)), Str(HashA), Str(Tx1)),
   MakeBody(Str(Rep("a", 101)), Str(HashA), Str(Tx1)),
   MakeBody(Undefined, Str(HashA), Str(Tx1)),
   MakeBody(Str(FpA), Str(Prefixed(HashA)), Str(Tx1)),
   MakeBody(Str(FpA), Str(Rep("g", 64)), Str(Tx1)),
   MakeBody(Str(FpA), Str(HashA), Str(Rep("1", 66))),
   [MakeBody(Str(FpA), Str(HashA), Str(Tx1)) EXCEPT !.walletAddress = Str(Rep("c", 42))],
   [MakeBody(Str(FpA), Str(HashA), Str(Tx1)) EXCEPT !.timestamp = Undefined],
   [MakeBody(Str(FpA), Str(HashA), Str(Tx1)) EXCEPT !.timestamp = Num(0 - 1)]}

Bodies == ValidBodies \cup InvalidBodies

\* :hash of GET /fingerprints/by-fingerprint-hash/:hash
HashParams == {Str(HashA), Str(Prefixed(HashA)), Str(Prefixed(HashB))}

\* :fingerprintId of GET /fingerprints/by-id/:fingerprintId
IdParams == {Str(FpA), Str(FpB), Str(Rep("a", 9))}

NoQuery == [page |-> Undefined, limit |-> Undefined, sortBy |-> "", sortOrder |-> ""]

\* query strings of GET /fingerprints
Queries ==
  {NoQuery,
   [NoQuery EXCEPT !.limit = Str(<<"1">>)],
   [NoQuery EXCEPT !.page = Str(<<"2">>), !.limit = Str(<<"1">>)],
   [NoQuery EXCEPT !.page = Str(<<"0">>)],
   [NoQuery EXCEPT !.sortBy = "fingerprint_hash", !.sortOrder = "asc"],
   [NoQuery EXCEPT !.sortBy = "dropTable", !.sortOrder = "down"]}

-----------------------------------------------------------------------------
(* TrackerContract.  Amounts are in units of 0.0005 ether.  uint256         *)
(* additions are checked; they cannot overflow, because totalValue is at    *)
(* most the ether ever sent to the contract and transactionCount the        *)
(* number of calls.                                                         *)

\* 0.001 ether
MINIMUM_AMOUNT == 2

\* bytes32(0)
ZeroHash == 0

\* the bytes32 values of the calls
Hashes == {ZeroHash, 1, 2}

\* msg.value of the calls: below, at and above MINIMUM_AMOUNT
Values == {1, 2, 3}

Deployer == "deployer"

\* msg.sender of the calls
Senders == {Deployer, "user1"}

\* the contract after its constructor: owner = msg.sender, empty storage
Constructor(sender) ==
  [owner |-> sender,
   fingerprintData |-> [h \in Hashes |-> [totalValue |-> 0, transactionCount |-> 0]],
   fingerprintHashes |-> <<>>,
   fingerprintExists |-> [h \in Hashes |-> FALSE],
   balance |-> 0]

\* a tracking that pushes the hash on every submission
PushAlways(c, fingerprintHash) ==
  [c EXCEPT !.fingerprintHashes = Append(@, fingerprintHash),
            !.fingerprintExists[fingerprintHash] = TRUE]

\* if (!fingerprintExists[h]) { fingerprintHashes.push(h); fingerprintExists[h] = true; }
TrackFingerprint(c, fingerprintHash) ==
  IF ~c.fingerprintExists[fingerprintHash]
  THEN [c EXCEPT !.fingerprintHashes = Append(@, fingerprintHash),
                 !.fingerprintExists[fingerprintHash] = TRUE]
  ELSE c

\* a modifier that lets every sender through
AnySender(c, sender) == TRUE

\* modifier onlyOwner: TRUE when the body runs
OnlyOwner(c, sender) == ~(sender # c.owner)

\* getFingerprintData(fingerprintHash)
GetFingerprintData(c, fingerprintHash) ==
  <<c.fingerprintData[fingerprintHash].totalValue,
    c.fingerprintData[fingerprintHash].transactionCount>>

\* getAllFingerprintHashes()
GetAllFingerprintHashes(c) == c.fingerprintHashes

\* getTotalFingerprints()
GetTotalFingerprints(c) == Len(c.fingerprintHashes)

\* getContractBalance()
GetContractBalance(c) == c.balance

\* the record of a call: error is "" when the call succeeded, paid is the
\* amount the call sent to the owner
Receipt(fn, sender, fingerprintHash, value, error, paid) ==
  [fn |-> fn, sender |-> sender, fingerprintHash |-> fingerprintHash,
   value |-> value, error |-> error, paid |-> paid]

-----------------------------------------------------------------------------
(* State *)

VARIABLES
  rows,            \* the fingerprint_logs table, in rowid order
  lastId,          \* the AUTOINCREMENT counter of fingerprint_logs
  clock,           \* CURRENT_TIMESTAMP / Date.now(), in seconds
  expectedApiKey,  \* process.env.API_SECRET_KEY
  slots,           \* the requests in flight and their responses
  started,         \* number of requests received
  contract,        \* TrackerContract: its storage and its balance
  calls,           \* the calls made to TrackerContract, with their outcomes
  client           \* the TrackerDApp component of one browser

vars == <<rows, lastId, clock, expectedApiKey, slots, started, contract, calls, client>>

NoResult == [state |-> "none", id |-> 0, error |-> <<>>]

NoResponse ==
  [status |-> 0, success |-> FALSE, data |-> <<>>, pagination |-> <<>>,
   authenticated |-> <<>>, error |-> <<>>]

\* a slot that holds no request.  apiKey is the key validateApiKey reads
\* from the headers; the other parts of a request (body, param, query) are
\* recorded when the middleware that reads them runs.
IdleSlot ==
  [pc |-> "idle", kind |-> "none", apiKey |-> Undefined, isAuthenticated |-> FALSE,
   body |-> <<>>, param |-> Undefined, query |-> <<>>,
   data |-> <<>>, existingRecord |-> <<>>, result |-> NoResult,
   stages |-> <<>>, resp |-> NoResponse]

\* createErrorResponse / the inline error bodies
ErrorResponse(status, error) ==
  [NoResponse EXCEPT !.status = status, !.error = error]

\* createSuccessResponse(record)
RecordResponse(status, record) ==
  [NoResponse EXCEPT !.status = status, !.success = TRUE, !.data = <<record>>]

\* the component before the user has submitted: no transaction, no receipt,
\* no request body, walletData null
IdleClient ==
  [pc |-> "idle", txHash |-> Undefined, requestBody |-> <<>>,
   apiCallStatus |-> "", walletData |-> <<>>]

\* validateEnvironment exits the process unless API_SECRET_KEY is set, and
\* initializeDatabase creates an empty table
Init ==
  /\ rows = <<>>
  /\ lastId = 0
  /\ clock = 0
  /\ expectedApiKey = Str(Secret)
  /\ slots = [p \in Procs |-> IdleSlot]
  /\ started = 0
  /\ contract = Constructor(Deployer)
  /\ calls = <<>>
  /\ client = IdleClient

\* a request is received into the lowest slot that holds no request in flight
Free(p) == slots[p].pc \in {"idle", "done"}

CanReceive(p) ==
  /\ started < MaxRequests
  /\ Free(p)
  /\ \A q \in Procs : q < p => ~Free(q)

\* the state of a request after validateApiKey
AfterAuth(kind, headers) ==
  LET auth == ValidateApiKey(headers, expectedApiKey)
      slot == [IdleSlot EXCEPT !.kind = kind, !.apiKey = PresentedApiKey(headers),
                               !.stages = <<"auth">>]
  IN IF auth = 500
     THEN [slot EXCEPT !.pc = "done",
                       !.resp = ErrorResponse(500, <<"Server", "configuration", "error">>)]
     ELSE IF auth = 401
     THEN [slot EXCEPT !.pc = "done",
                       !.resp = ErrorResponse(401,
                                  IF Truthy(PresentedApiKey(headers))
                                  THEN <<"Invalid", "API", "key">>
                                  ELSE <<"API", "key", "required">>)]
     ELSE [slot EXCEPT !.pc = "authenticated", !.isAuthenticated = TRUE]

-----------------------------------------------------------------------------
(* POST /log *)

\* a catch block that answers every DatabaseError as a conflict
LogErrorResponseConflict(message) == ErrorResponse(409, message)

\* the response of the catch block of POST /log to a DatabaseError
LogErrorResponse(message) ==
  ErrorResponse(IF Includes(message, <<"already", "exists">>) THEN 409 ELSE 500, message)

\* validateApiKey, validateCreateTransaction, then the handler up to the
\* SELECT of addTransactionToFingerprint
PostLog(p, headers, body) ==
  /\ CanReceive(p)
  /\ started' = started + 1
  /\ LET slot == AfterAuth("log", headers)
     IN IF slot.pc = "done"
        THEN slots' = [slots EXCEPT ![p] = slot]
        ELSE IF ~ValidateCreateTransaction(body, clock)
        THEN slots' = [slots EXCEPT ![p] =
               [slot EXCEPT !.pc = "done", !.body = body,
                            !.stages = <<"auth", "validate">>,
                            !.resp = ErrorResponse(400, <<"validation">>)]]
        ELSE LET data == [fingerprintId |-> body.fingerprintId,
                          walletAddress |-> body.walletAddress,
                          transactionHash |-> body.transactionHash,
                          fingerprintHash |-> body.hashedFingerprint,
                          timestamp |-> IF Truthy(body.timestamp)
                                        THEN body.timestamp
                                        ELSE Str(FormatTimestamp(clock))]
                 found == SelectByIdAndHash(rows, data.fingerprintId, data.fingerprintHash)
             IN slots' = [slots EXCEPT ![p] =
                  [slot EXCEPT !.pc = "selected", !.body = body, !.data = data,
                               !.stages = <<"auth", "validate", "select">>,
                               !.existingRecord =
                                  [i \in 1..Len(found) |->
                                     [id |-> found[i].id,
                                      transactions |-> found[i].transactions]]]]
  /\ UNCHANGED <<rows, lastId, clock, expectedApiKey, contract, calls, client>>

\* addTransactionToFingerprint throws: the catch block of the route answers
AddFails(p, message) ==
  /\ slots' = [slots EXCEPT ![p] =
       [@ EXCEPT !.pc = "done",
                 !.result = [state |-> "error", id |-> 0, error |-> message],
                 !.resp = LogErrorResponse(message)]]
  /\ UNCHANGED <<rows, lastId>>

\* addTransactionToFingerprint returns id
AddReturns(p, id, stage) ==
  slots' = [slots EXCEPT ![p] =
     [@ EXCEPT !.pc = "written",
               !.result = [state |-> "ok", id |-> id, error |-> <<>>],
               !.stages = Append(@, stage)]]

\* addTransactionToFingerprint after its SELECT: the duplicate check on the
\* row it read, then the UPDATE or the INSERT
AddWrite(p) ==
  /\ slots[p].pc = "selected"
  /\ LET data == slots[p].data
         existingRecord == slots[p].existingRecord
     IN IF existingRecord # <<>>
        THEN LET blob == existingRecord[1].transactions
             IN IF BlobTruthy(blob) /\ JsonParseThrows(blob)
                THEN AddFails(p, WrapAddError(MsgParseExisting))
                ELSE LET transactions == IF BlobTruthy(blob) THEN JsonParse(blob) ELSE <<>>
                     IN IF TransactionExists(transactions, data.transactionHash)
                        THEN AddFails(p, WrapAddError(MsgAlreadyExists))
                        ELSE /\ rows' = UpdateRow(rows, existingRecord[1].id,
                                          JsonStringify(Push(transactions, NewTransaction(data))),
                                          clock)
                             /\ AddReturns(p, existingRecord[1].id, "update")
                             /\ UNCHANGED lastId
        ELSE IF UniqueViolation(rows, data.fingerprintId)
             THEN AddFails(p, WrapAddError(MsgUniqueConstraint))
             ELSE /\ rows' = InsertRow(rows, lastId + 1, data.fingerprintId,
                               data.fingerprintHash,
                               JsonStringify(<<NewTransaction(data)>>), clock)
                  /\ lastId' = lastId + 1
                  /\ AddReturns(p, lastId + 1, "insert")
  /\ UNCHANGED <<clock, expectedApiKey, started, contract, calls, client>>

\* the handler after addTransactionToFingerprint: getFingerprintById and
\* the 201 response
PostRespond(p) ==
  /\ slots[p].pc = "written"
  /\ LET updatedRecord == SelectById(rows, slots[p].data.fingerprintId)
     IN slots' = [slots EXCEPT ![p] =
          [@ EXCEPT !.pc = "done",
                    !.stages = Append(@, "getById"),
                    !.resp = IF updatedRecord = <<>>
                             THEN LogErrorResponse(MsgRetrieveFailed)
                             ELSE RecordResponse(201, TransformFingerprintLog(updatedRecord[1]))]]
  /\ UNCHANGED <<rows, lastId, clock, expectedApiKey, started, contract, calls, client>>

-----------------------------------------------------------------------------
(* GET /fingerprints, /fingerprints/by-fingerprint-hash/:hash, by-id/:id *)

\* the handler of GET /fingerprints: the responses it can send for a
\* validated query, one for each result the SELECT can yield
ListResponses(table, query, isAuthenticated) ==
  LET page == IF Truthy(query.page) THEN query.page ELSE Num(1)
      limit == IF Truthy(query.limit) THEN query.limit ELSE Num(50)
      offset == (JsNumber(page).n - 1) * JsNumber(limit).n
      sortBy == SanitizeSortField(
                  IF query.sortBy # "" THEN query.sortBy ELSE "created_at",
                  RouteValidSortFields)
      sortOrder == SanitizeSortOrder(
                     IF query.sortOrder # "" THEN query.sortOrder ELSE "DESC")
  IN {[NoResponse EXCEPT
         !.status = 200,
         !.success = TRUE,
         !.data = [i \in 1..Len(result.logs) |->
                     ShapeListEntry(TransformFingerprintLog(result.logs[i]),
                                    isAuthenticated)],
         !.pagination = <<CalculatePagination(page, limit, result.total)>>,
         !.authenticated = <<isAuthenticated>>] :
        result \in GetAllFingerprints(table, JsNumber(limit).n, offset, sortBy, sortOrder)}

\* validateApiKey, validateGetFingerprintsQuery, then the handler
GetFingerprints(p, headers, query) ==
  /\ CanReceive(p)
  /\ started' = started + 1
  /\ LET slot == AfterAuth("list", headers)
     IN IF slot.pc = "done"
        THEN slots' = [slots EXCEPT ![p] = slot]
        ELSE IF ~ValidateGetFingerprintsQuery(query)
        THEN slots' = [slots EXCEPT ![p] =
               [slot EXCEPT !.pc = "done", !.query = query,
                            !.stages = <<"auth", "validate">>,
                            !.resp = ErrorResponse(400, <<"validation">>)]]
        ELSE \E resp \in ListResponses(rows, query, slot.isAuthenticated) :
               slots' = [slots EXCEPT ![p] =
                 [slot EXCEPT !.pc = "done", !.query = query,
                              !.stages = <<"auth", "validate", "list">>,
                              !.resp = resp]]
  /\ UNCHANGED <<rows, lastId, clock, expectedApiKey, contract, calls, client>>

\* validateApiKey, validateFingerprintHash, getFingerprintByHash
GetByHash(p, headers, hash) ==
  /\ CanReceive(p)
  /\ started' = started + 1
  /\ LET slot == AfterAuth("byHash", headers)
     IN IF slot.pc = "done"
        THEN slots' = [slots EXCEPT ![p] = slot]
        ELSE IF ~ValidateFingerprintHash(hash)
        THEN slots' = [slots EXCEPT ![p] =
               [slot EXCEPT !.pc = "done", !.param = hash,
                            !.stages = <<"auth", "validate">>,
                            !.resp = ErrorResponse(400, <<"validation">>)]]
        ELSE IF SelectByHash(rows, hash) = {}
        THEN slots' = [slots EXCEPT ![p] =
               [slot EXCEPT !.pc = "done", !.param = hash,
                            !.stages = <<"auth", "validate", "getByHash">>,
                            !.resp = ErrorResponse(404, MsgNoHash)]]
        ELSE \E record \in SelectByHash(rows, hash) :
               slots' = [slots EXCEPT ![p] =
                 [slot EXCEPT !.pc = "done", !.param = hash,
                              !.stages = <<"auth", "validate", "getByHash">>,
                              !.resp = RecordResponse(200, TransformFingerprintLog(record))]]
  /\ UNCHANGED <<rows, lastId, clock, expectedApiKey, contract, calls, client>>

\* a lookup that stamps the record it reads
GetByIdTouching(p, headers, fingerprintId) ==
  /\ CanReceive(p)
  /\ started' = started + 1
  /\ slots' = [slots EXCEPT ![p] =
       [AfterAuth("byId", headers) EXCEPT !.pc = "done", !.param = fingerprintId]]
  /\ rows' = [i \in 1..Len(rows) |->
                IF rows[i].fingerprint_id = fingerprintId
                THEN [rows[i] EXCEPT !.updated_at = clock]
                ELSE rows[i]]
  /\ UNCHANGED <<lastId, clock, expectedApiKey, contract, calls, client>>

\* validateApiKey, validateFingerprintId, getFingerprintById
GetById(p, headers, fingerprintId) ==
  /\ CanReceive(p)
  /\ started' = started + 1
  /\ LET slot == AfterAuth("byId", headers)
     IN IF slot.pc = "done"
        THEN slots' = [slots EXCEPT ![p] = slot]
        ELSE IF ~ValidateFingerprintId(fingerprintId)
        THEN slots' = [slots EXCEPT ![p] =
               [slot EXCEPT !.pc = "done", !.param = fingerprintId,
                            !.stages = <<"auth", "validate">>,
                            !.resp = ErrorResponse(400, <<"validation">>)]]
        ELSE LET record == SelectById(rows, fingerprintId)
             IN slots' = [slots EXCEPT ![p] =
                  [slot EXCEPT !.pc = "done", !.param = fingerprintId,
                               !.stages = <<"auth", "validate", "getById">>,
                               !.resp = IF record = <<>>
                                        THEN ErrorResponse(404, MsgNoId)
                                        ELSE RecordResponse(200,
                                               TransformFingerprintLog(record[1]))]]
  /\ UNCHANGED <<rows, lastId, clock, expectedApiKey, contract, calls, client>>

\* a second passes
Tick ==
  /\ clock < MaxClock
  /\ clock' = clock + 1
  /\ UNCHANGED <<rows, lastId, expectedApiKey, slots, started, contract, calls, client>>

\* what a request that fails validateApiKey carries besides its headers is
\* never read: one value stands for all
Read(headers, inputs) ==
  IF ValidateApiKey(headers, expectedApiKey) = 0
  THEN inputs
  ELSE {CHOOSE i \in inputs : TRUE}

Next ==
  \/ \E p \in Procs, headers \in HeaderSets :
       \E body \in Read(headers, Bodies) : PostLog(p, headers, body)
  \/ \E p \in Procs : AddWrite(p)
  \/ \E p \in Procs : PostRespond(p)
  \/ \E p \in Procs, headers \in HeaderSets :
       \E query \in Read(headers, Queries) : GetFingerprints(p, headers, query)
  \/ \E p \in Procs, headers \in HeaderSets :
       \E hash \in Read(headers, HashParams) : GetByHash(p, headers, hash)
  \/ \E p \in Procs, headers \in HeaderSets :
       \E id \in Read(headers, IdParams) : GetById(p, headers, id)
  \/ Tick

Spec == Init /\ [][Next]_vars

-----------------------------------------------------------------------------
(* Properties *)

\* the parsed transaction list of a stored row
Transactions(row) == TransformFingerprintLog(row).transactions

HasTxHash(transactions, txHash) ==
  \E i \in 1..Len(transactions) : transactions[i].txHash = txHash

\* p is a POST /log request whose addTransactionToFingerprint has ended
AddEnded(p) == slots[p].kind = "log" /\ slots[p].result.state # "none"

AddSucceeded(p) == slots[p].kind = "log" /\ slots[p].result.state = "ok"

FailedAs(p, message) ==
  /\ slots[p].kind = "log"
  /\ slots[p].result.state = "error"
  /\ Includes(slots[p].result.error, message)

\* the step is the end of p's addTransactionToFingerprint
AddEnds(p) == slots[p].pc = "selected" /\ slots'[p].pc # "selected"

\* the step receives a request into slot p
Receives(p) == CanReceive(p) /\ started' = started + 1

\* C1: no record's transactions list holds two entries with the same txHash
C1_NoDuplicateTxHash ==
  \A i \in 1..Len(rows) :
    \A a, b \in 1..Len(Transactions(rows[i])) :
      a # b => Transactions(rows[i])[a].txHash # Transactions(rows[i])[b].txHash

\* C2: a call that follows a call with the same arguments (the record it
\* read is the stored one and holds its txHash) fails with
\* DuplicateTransaction and leaves the table as it was
C2_SecondCallFailsDuplicate ==
  [][\A p \in Procs :
       (/\ AddEnds(p)
        /\ slots[p].existingRecord # <<>>
        /\ \E i \in 1..Len(rows) :
             /\ rows[i].id = slots[p].existingRecord[1].id
             /\ rows[i].transactions = slots[p].existingRecord[1].transactions
             /\ HasTxHash(Transactions(rows[i]), slots[p].data.transactionHash))
       => /\ slots'[p].result.state = "error"
          /\ Includes(slots'[p].result.error, MsgAlreadyExists)
          /\ slots'[p].resp.status = 409
          /\ rows' = rows]_vars

\* two requests read the same existing record before either wrote, with
\* the same txHash that the record did not hold
ConcurrentSameNewTx(p, q) ==
  /\ p # q
  /\ AddEnded(p) /\ AddEnded(q)
  /\ slots[p].data.fingerprintId = slots[q].data.fingerprintId
  /\ slots[p].data.fingerprintHash = slots[q].data.fingerprintHash
  /\ slots[p].data.transactionHash = slots[q].data.transactionHash
  /\ slots[p].existingRecord # <<>>
  /\ slots[q].existingRecord = slots[p].existingRecord
  /\ ~HasTxHash(JsonParse(slots[p].existingRecord[1].transactions),
                slots[p].data.transactionHash)

\* C3: of concurrent calls with the same new txHash for an existing
\* fingerprint exactly one succeeds and the others fail with
\* DuplicateTransaction
C3_ConcurrentDedup ==
  \A p, q \in Procs :
    ConcurrentSameNewTx(p, q) =>
      \/ AddSucceeded(p) /\ FailedAs(q, MsgAlreadyExists)
      \/ AddSucceeded(q) /\ FailedAs(p, MsgAlreadyExists)

\* C4: every step keeps every record and extends its transactions list
C4_AppendOnly ==
  [][\A i \in 1..Len(rows) :
       /\ i <= Len(rows')
       /\ rows'[i].id = rows[i].id
       /\ IsPrefix(Transactions(rows[i]), Transactions(rows'[i]))]_vars

\* the record of the request's (fingerprintId, fingerprintHash) pair
PairRecord(table, data) ==
  SelectByIdAndHash(table, data.fingerprintId, data.fingerprintHash)

\* p's call has created a record that holds its entry alone and has
\* returned that record's id
CreatedRecord(p) ==
  /\ slots'[p].result.state = "ok"
  /\ Len(rows') = Len(rows) + 1
  /\ PairRecord(rows', slots[p].data) # <<>>
  /\ Transactions(PairRecord(rows', slots[p].data)[1]) = <<NewTransaction(slots[p].data)>>
  /\ slots'[p].result.id = PairRecord(rows', slots[p].data)[1].id
  /\ \A i \in 1..Len(rows) : rows[i].id # slots'[p].result.id

\* p's call follows the call that created the record (the record it read is
\* the stored one, with one entry) and carries another txHash
FollowsCreation(p) ==
  /\ slots[p].existingRecord # <<>>
  /\ PairRecord(rows, slots[p].data) # <<>>
  /\ PairRecord(rows, slots[p].data)[1].id = slots[p].existingRecord[1].id
  /\ PairRecord(rows, slots[p].data)[1].transactions = slots[p].existingRecord[1].transactions
  /\ Len(Transactions(PairRecord(rows, slots[p].data)[1])) = 1
  /\ ~HasTxHash(Transactions(PairRecord(rows, slots[p].data)[1]),
                slots[p].data.transactionHash)

\* p's call has appended its entry as the second one and has returned the
\* id of the record
AppendedSecond(p) ==
  /\ slots'[p].result.state = "ok"
  /\ slots'[p].result.id = slots[p].existingRecord[1].id
  /\ Len(rows') = Len(rows)
  /\ PairRecord(rows', slots[p].data) # <<>>
  /\ PairRecord(rows', slots[p].data)[1].id = slots[p].existingRecord[1].id
  /\ Transactions(PairRecord(rows', slots[p].data)[1]) =
       Transactions(PairRecord(rows, slots[p].data)[1]) \o <<NewTransaction(slots[p].data)>>
  /\ Len(Transactions(PairRecord(rows', slots[p].data)[1])) = 2

\* C5 as stated: the first call for a never-seen (fingerprintId,
\* fingerprintHash) pair creates a record of one entry, and a following call
\* with a new txHash makes it two entries under the same id
C5_PairCreateThenAppend ==
  [][\A p \in Procs :
       AddEnds(p) =>
         /\ (slots[p].existingRecord = <<>> /\ PairRecord(rows, slots[p].data) = <<>>)
              => CreatedRecord(p)
         /\ FollowsCreation(p) => AppendedSecond(p)]_vars

\* C5: the first call for a fingerprintId that has no record creates a
\* record of one entry and returns its id, and a following call for the same
\* pair with a new txHash makes it two entries, in insertion order, under
\* the same id
C5_CreateThenAppend ==
  [][\A p \in Procs :
       AddEnds(p) =>
         /\ (slots[p].existingRecord = <<>>
               /\ SelectById(rows, slots[p].data.fingerprintId) = <<>>)
              => CreatedRecord(p)
         /\ FollowsCreation(p) => AppendedSecond(p)]_vars

\* a record holds two entries with different txHashes and a request that
\* read it with one entry has returned its id
C5_Witness ==
  \E p \in Procs, i \in 1..Len(rows) :
    /\ AddSucceeded(p)
    /\ slots[p].result.id = rows[i].id
    /\ slots[p].existingRecord # <<>>
    /\ Len(JsonParse(slots[p].existingRecord[1].transactions)) = 1
    /\ Len(Transactions(rows[i])) = 2
    /\ Transactions(rows[i])[1].txHash # Transactions(rows[i])[2].txHash
    /\ Transactions(rows[i])[2] = NewTransaction(slots[p].data)

\* C6: at most one record exists for a (fingerprintId, fingerprintHash)
\* pair, and no two records share a fingerprintId
C6_OneRecordPerFingerprint ==
  \A i, j \in 1..Len(rows) :
    i # j =>
      /\ rows[i].fingerprint_id # rows[j].fingerprint_id
      /\ <<rows[i].fingerprint_id, rows[i].fingerprint_hash>> #
           <<rows[j].fingerprint_id, rows[j].fingerprint_hash>>

\* two first-time requests for the same fingerprint both found no record;
\* one created it and the other lost the insert
C6_Witness ==
  \E p, q \in Procs :
    /\ p # q
    /\ AddSucceeded(p)
    /\ FailedAs(q, MsgUniqueConstraint)
    /\ slots[p].existingRecord = <<>> /\ slots[q].existingRecord = <<>>
    /\ slots[p].data.fingerprintId = slots[q].data.fingerprintId
    /\ slots[p].data.fingerprintHash = slots[q].data.fingerprintHash
    /\ Cardinality({i \in 1..Len(rows) :
                      rows[i].fingerprint_id = slots[p].data.fingerprintId}) = 1

\* the request in slot p presented the configured API key
PresentedValidKey(slot) == Truthy(expectedApiKey) /\ slot.apiKey = expectedApiKey

\* the records a response carries are the transformed rows, unredacted
Unredacted(data) ==
  \A i \in 1..Len(data) :
    \E k \in 1..Len(rows) : data[i] = TransformFingerprintLog(rows[k])

\* the records a response carries are redacted rows
Redacted(data) ==
  \A i \in 1..Len(data) :
    \E k \in 1..Len(rows) :
      data[i] = ShapeListEntry(TransformFingerprintLog(rows[k]), FALSE)

\* C7: a list request without a valid key is answered 200 with redacted
\* records and the flag false, one with a valid key with the records
\* unchanged and the flag true; single-record lookups are never redacted
C7_ListRedactedForUnprivileged ==
  [][\A p \in Procs :
       Receives(p) =>
         /\ (slots'[p].kind = "list" /\ ~PresentedValidKey(slots'[p])) =>
              /\ slots'[p].resp.status = 200
              /\ slots'[p].resp.authenticated = <<FALSE>>
              /\ Redacted(slots'[p].resp.data)
         /\ (slots'[p].kind = "list" /\ PresentedValidKey(slots'[p])
               /\ slots'[p].resp.status = 200) =>
              /\ slots'[p].resp.authenticated = <<TRUE>>
              /\ Unredacted(slots'[p].resp.data)
         /\ (slots'[p].kind \in {"byHash", "byId"} /\ slots'[p].resp.status = 200) =>
              Unredacted(slots'[p].resp.data)]_vars

\* C8: the unprivileged shaping of every stored record gives a fingerprintId
\* that is a strict prefix of the stored one followed by '...', and
\* transactions whose txHash and walletAddress differ from the stored ones
C8_RedactionMasks ==
  \A k \in 1..Len(rows) :
    LET record == TransformFingerprintLog(rows[k])
        shaped == ShapeListEntry(record, FALSE)
    IN /\ \E n \in 0..(Len(record.fingerprintId.s) - 1) :
            shaped.fingerprintId.s = SubSeq(record.fingerprintId.s, 1, n) \o Ellipsis
       /\ Len(shaped.transactions) = Len(record.transactions)
       /\ \A i \in 1..Len(record.transactions) :
            /\ shaped.transactions[i].txHash # record.transactions[i].txHash
            /\ shaped.transactions[i].walletAddress # record.transactions[i].walletAddress

\* records of the shortest and of the longest valid fingerprintId are
\* stored, each with a transaction
C8_Witness ==
  /\ \E k \in 1..Len(rows) :
       Len(rows[k].fingerprint_id.s) = 10 /\ Len(Transactions(rows[k])) = 1
  /\ \E k \in 1..Len(rows) :
       Len(rows[k].fingerprint_id.s) = 100 /\ Len(Transactions(rows[k])) = 1

C10_StoredHashIsFound ==
  [][\A p \in Procs :
       (/\ Receives(p)
        /\ slots'[p].kind = "byHash"
        /\ PresentedValidKey(slots'[p])
        /\ \E k \in 1..Len(rows) : rows[k].fingerprint_hash = slots'[p].param)
       => /\ slots'[p].resp.status = 200
          /\ \E k \in 1..Len(rows) :
               /\ rows[k].fingerprint_hash = slots'[p].param
               /\ slots'[p].resp.data = <<TransformFingerprintLog(rows[k])>>]_vars

\* C11: a 201 response to POST /log carries a record that holds an entry
\* with the txHash of the request
C11_ResponseHasOwnEntry ==
  \A p \in Procs :
    (slots[p].kind = "log" /\ slots[p].pc = "done" /\ slots[p].resp.status = 201)
      => HasTxHash(slots[p].resp.data[1].transactions, slots[p].data.transactionHash)

\* the body with the timestamp the client leaves out filled in
WithTimestamp(body) == [body EXCEPT !.timestamp = Str(IsoTime)]

\* C12: a request without timestamp whose other fields are valid is
\* accepted, and the entry it stores carries the server's ISO-8601 time
C12_TimestampOptional ==
  [][\A p \in Procs :
       (/\ Receives(p)
        /\ slots'[p].kind = "log"
        /\ PresentedValidKey(slots'[p])
        /\ slots'[p].body.timestamp = Undefined
        /\ ValidateCreateTransaction(WithTimestamp(slots'[p].body), clock))
       => /\ slots'[p].pc = "selected"
          /\ slots'[p].data.timestamp.t = "string"
          /\ DateParses(slots'[p].data.timestamp.s)]_vars

-----------------------------------------------------------------------------
(* A server started on a database file that already holds records.         *)
(* initializeDatabase runs CREATE TABLE IF NOT EXISTS, so the table of an   *)
(* earlier run is kept; its rows satisfy the schema (fingerprint_id UNIQUE  *)
(* NOT NULL, the other columns unconstrained TEXT) but need not have been   *)
(* written through the validators of this version.  Times of the earlier    *)
(* run are seconds before the start of this one.                            *)

FpC == Rep("c", 10)

StoredEntry ==
  [txHash |-> Str(Tx1), walletAddress |-> Str(Wallet1), timestamp |-> Str(IsoTime)]

\* JSON text of a list whose entry is not a transaction: [{"note":"x"}]
NotTransactionsBlob == JsonStringify(<<[note |-> Str(<<"x">>)]>>)

StoredRow(id, fingerprintId, fingerprintHash, blob, createdAt) ==
  [id |-> id,
   fingerprint_id |-> Str(fingerprintId),
   fingerprint_hash |-> Str(fingerprintHash),
   transactions |-> blob,
   created_at |-> createdAt,
   updated_at |-> createdAt]

\* three records: a well-formed one, one whose blob is not JSON (POST /log
\* can reach it), and one with the given blob that the lookup by hash can
\* reach
StoredTable(blob) ==
  <<StoredRow(1, FpA, HashA, JsonStringify(<<StoredEntry>>), 0 - 3),
    StoredRow(2, FpB, HashB, GarbageBlob, 0 - 2),
    StoredRow(3, FpC, Prefixed(HashA), blob, 0 - 1)>>

\* two records created within the same second (CURRENT_TIMESTAMP has a
\* resolution of one second)
TiedTable ==
  <<StoredRow(1, FpA, HashA, JsonStringify(<<StoredEntry>>), 0 - 1),
    StoredRow(2, FpB, HashB, JsonStringify(<<StoredEntry>>), 0 - 1)>>

\* the empty table, the three records with a third blob that is not JSON,
\* NULL, or a list of something else, and the two records of one second
StoredTables ==
  {<<>>, TiedTable}
    \cup {StoredTable(blob) : blob \in {GarbageBlob, NullBlob, NotTransactionsBlob}}

StoredBodies ==
  {MakeBody(Str(FpA), Str(HashA), Str(Tx1)),
   MakeBody(Str(FpA), Str(HashA), Str(Tx2)),
   MakeBody(Str(FpB), Str(HashB), Str(Tx1))}

StoredHashParams == {Str(HashA), Str(Prefixed(HashA)), Str(Prefixed(HashB))}

StoredIdParams == {Str(FpA), Str(FpB), Str(FpC), Str(Rep("a", 9))}

StoredQueries ==
  {NoQuery,
   [NoQuery EXCEPT !.page = Str(<<"2">>), !.limit = Str(<<"1">>)],
   [NoQuery EXCEPT !.limit = Str(<<"2">>)],
   [NoQuery EXCEPT !.page = Str(<<"2">>), !.limit = Str(<<"2">>)],
   [NoQuery EXCEPT !.page = Str(<<"3">>), !.limit = Str(<<"2">>)],
   [NoQuery EXCEPT !.sortBy = "fingerprint_id", !.sortOrder = "Asc"],
   [NoQuery EXCEPT !.sortBy = "fingerprint_hash"],
   [NoQuery EXCEPT !.sortBy = "dropTable", !.limit = Str(<<"2">>)],
   [NoQuery EXCEPT !.sortBy = "wallet_address", !.sortOrder = "down",
                   !.limit = Str(<<"2">>)]}

InitStored ==
  /\ rows \in StoredTables
  /\ lastId = Len(rows)
  /\ clock = 0
  /\ expectedApiKey = Str(Secret)
  /\ slots = [p \in Procs |-> IdleSlot]
  /\ started = 0
  /\ contract = Constructor(Deployer)
  /\ calls = <<>>
  /\ client = IdleClient

NextStored ==
  \/ \E p \in Procs, headers \in HeaderSets :
       \E body \in Read(headers, StoredBodies) : PostLog(p, headers, body)
  \/ \E p \in Procs : AddWrite(p)
  \/ \E p \in Procs : PostRespond(p)
  \/ \E p \in Procs, headers \in HeaderSets :
       \E query \in Read(headers, StoredQueries) : GetFingerprints(p, headers, query)
  \/ \E p \in Procs, headers \in HeaderSets :
       \E hash \in Read(headers, StoredHashParams) : GetByHash(p, headers, hash)
  \/ \E p \in Procs, headers \in HeaderSets :
       \E id \in Read(headers, StoredIdParams) : GetById(p, headers, id)
  \/ Tick

SpecStored == InitStored /\ [][NextStored]_vars

-----------------------------------------------------------------------------
(* Reads of stored records *)

\* the request received by this step ran the handler of a read route
ReadHandled(p) ==
  /\ Receives(p)
  /\ slots'[p].kind \in {"list", "byHash", "byId"}
  /\ Len(slots'[p].stages) = 3

\* the stored row a returned record was read from
RowOf(table, record) == table[CHOOSE i \in 1..Len(table) : table[i].id = record.id]

\* the rows a lookup matches
Matching(table, slot) ==
  {i \in 1..Len(table) :
     \/ slot.kind = "byHash" /\ table[i].fingerprint_hash = slot.param
     \/ slot.kind = "byId" /\ table[i].fingerprint_id = slot.param}

\* a read answers 200 when there is something to return
ReadSucceeds(p) ==
  slots'[p].resp.status =
    IF slots'[p].kind # "list" /\ Matching(rows, slots'[p]) = {} THEN 404 ELSE 200

\* JSON text of a list of { txHash, walletAddress, timestamp } objects
ValidTransactionList(blob) ==
  /\ blob.kind = "json"
  /\ \A i \in 1..Len(blob.val) :
       DOMAIN blob.val[i] = {"txHash", "walletAddress", "timestamp"}

\* text that is not JSON, or the column is NULL
Unparsable(blob) == blob.kind \in {"garbage", "null"}

\* C13 as stated: a read of a record whose blob is not a valid serialized
\* transaction list returns transactions = [] in a successful response
C13_InvalidBlobReadsEmpty ==
  [][\A p \in Procs :
       ReadHandled(p) =>
         /\ ReadSucceeds(p)
         /\ \A i \in 1..Len(slots'[p].resp.data) :
              ~ValidTransactionList(RowOf(rows, slots'[p].resp.data[i]).transactions)
                => slots'[p].resp.data[i].transactions = <<>>]_vars

\* C13: a read (by hash, by id or list) of a record whose blob does not
\* parse as JSON, or is NULL, returns transactions = [] in a successful
\* response; the blob never makes the read fail
C13_UnparsableBlobReadsEmpty ==
  [][\A p \in Procs :
       ReadHandled(p) =>
         /\ ReadSucceeds(p)
         /\ \A i \in 1..Len(slots'[p].resp.data) :
              Unparsable(RowOf(rows, slots'[p].resp.data[i]).transactions)
                => slots'[p].resp.data[i].transactions = <<>>]_vars

\* a lookup by hash has returned a record whose stored blob is not JSON
C13_Witness ==
  \E p \in Procs :
    /\ slots[p].kind = "byHash"
    /\ slots[p].resp.status = 200
    /\ slots[p].resp.data[1].transactions = <<>>
    /\ \E i \in 1..Len(rows) :
         /\ rows[i].id = slots[p].resp.data[1].id
         /\ rows[i].transactions = GarbageBlob

-----------------------------------------------------------------------------
(* Pagination and sorting of GET /fingerprints *)

\* a 200 response of the list route
ListAnswered(slot) == slot.kind = "list" /\ slot.pc = "done" /\ slot.resp.status = 200

\* the least k with k * pageSize >= total
Ceiling(total, pageSize) ==
  CHOOSE k \in 0..total : k * pageSize >= total /\ \A j \in 0..(k - 1) : j * pageSize < total

\* C14: for page >= 1, pageSize in 1..100 and total >= 0 the metadata is
\* totalPages = ceil(total / pageSize) and hasMore = (page < totalPages);
\* with total = 0 it is totalPages = 0 and hasMore = false
C14_PaginationMetadata ==
  \A p \in Procs :
    ListAnswered(slots[p]) =>
      LET meta == slots[p].resp.pagination[1]
          page == JsNumber(meta.page).n
          pageSize == JsNumber(meta.limit).n
      IN /\ page >= 1 /\ pageSize \in 1..100 /\ meta.total >= 0
         /\ meta.totalPages = Ceiling(meta.total, pageSize)
         /\ meta.hasMore = (page < meta.totalPages)
         /\ meta.total = 0 => (meta.totalPages = 0 /\ ~meta.hasMore)

\* page 1 of 2: three records, two to the page
C14_Witness ==
  \E p \in Procs :
    /\ ListAnswered(slots[p])
    /\ slots[p].resp.pagination[1].total = 3
    /\ slots[p].resp.pagination[1].limit = Str(<<"2">>)
    /\ slots[p].resp.pagination[1].totalPages = 2
    /\ slots[p].resp.pagination[1].hasMore

SortAllowList == {"created_at", "updated_at", "fingerprint_id", "fingerprint_hash"}

\* the query with createdAt for a sort field outside the allow-list and
\* DESC for a direction that is neither ASC nor DESC in any case
WithFallbacks(query) ==
  [query EXCEPT
     !.sortBy = IF @ \in SortAllowList \cup {""} THEN @ ELSE "created_at",
     !.sortOrder = IF @ \in {"", "ASC", "DESC", "asc", "desc", "Asc"} THEN @ ELSE "DESC"]

\* C16: a list request with a sort field outside the allow-list is answered
\* as the request with createdAt, one with a direction that is not ASC or
\* DESC as the request with DESC, and neither is an error
C16_SortFallback ==
  [][\A p \in Procs :
       (ReadHandled(p) /\ slots'[p].kind = "list") =>
         LET query == slots'[p].query
             auth == slots'[p].isAuthenticated
         IN /\ slots'[p].resp.status = 200
            /\ query # WithFallbacks(query) =>
                 /\ ListResponses(rows, query, auth)
                      = ListResponses(rows, WithFallbacks(query), auth)
                 /\ slots'[p].resp \in ListResponses(rows, WithFallbacks(query), auth)]_vars

\* a request with an unknown field and direction has been answered with
\* records of different creation times
C16_Witness ==
  \E p \in Procs :
    /\ ListAnswered(slots[p])
    /\ slots[p].query.sortOrder = "down"
    /\ slots[p].query.sortBy = "wallet_address"
    /\ Len(slots[p].resp.data) = 2
    /\ slots[p].resp.data[1].createdAt > slots[p].resp.data[2].createdAt

-----------------------------------------------------------------------------
(* Error categories and validation of POST /log *)

\* the record the call read already holds an entry with its txHash
IsDuplicate(slot) ==
  /\ slot.existingRecord # <<>>
  /\ slot.existingRecord[1].transactions.kind = "json"
  /\ HasTxHash(slot.existingRecord[1].transactions.val, slot.data.transactionHash)

\* C17: failures are reported by category and never as success: a duplicate
\* recordTransaction is answered 409 and nothing else is, a lookup by hash or
\* id that matches no record is answered 404, every other failure of the
\* store is answered 500
C17_ErrorCategories ==
  [][\A p \in Procs :
       /\ AddEnds(p) =>
            /\ IsDuplicate(slots[p]) =>
                 (slots'[p].pc = "done" /\ slots'[p].resp.status = 409)
            /\ slots'[p].resp.status = 409 => IsDuplicate(slots[p])
            /\ (slots'[p].result.state = "error" /\ ~IsDuplicate(slots[p])) =>
                 (slots'[p].pc = "done" /\ slots'[p].resp.status = 500)
       /\ (ReadHandled(p) /\ slots'[p].kind \in {"byHash", "byId"}) =>
            (Matching(rows, slots'[p]) = {} <=> slots'[p].resp.status = 404)]_vars

HexDigits ==
  {"0","1","2","3","4","5","6","7","8","9","a","b","c","d","e","f","A","B","C","D","E","F"}

IsHexText(v, prefix, digits) ==
  /\ v.t = "string"
  /\ Len(v.s) = Len(prefix) + digits
  /\ \A i \in 1..Len(v.s) :
       IF i <= Len(prefix) THEN v.s[i] = prefix[i] ELSE v.s[i] \in HexDigits

\* the format rules of a record-transaction request; now is in seconds
WellFormed(fingerprintId, walletAddress, transactionHash, fingerprintHash, timestamp, now) ==
  /\ fingerprintId.t = "string" /\ Len(fingerprintId.s) \in 10..100
  /\ IsHexText(walletAddress, <<"0", "x">>, 40)
  /\ IsHexText(transactionHash, <<"0", "x">>, 64)
  /\ IsHexText(fingerprintHash, <<>>, 64)
  /\ \/ timestamp = Undefined
     \/ timestamp.t = "string" /\ DateParses(timestamp.s)
     \/ timestamp.t = "number" /\ timestamp.n >= 0
          /\ timestamp.n <= now * 1000 + 24 * 60 * 60 * 1000

-----------------------------------------------------------------------------
(* The calls to TrackerContract *)

\* a call that reverts leaves the contract as it was; msg.value goes back
Reverts(fn, sender, fingerprintHash, value, error) ==
  /\ calls' = Append(calls, Receipt(fn, sender, fingerprintHash, value, error, 0))
  /\ UNCHANGED contract

\* submitAction(fingerprintHash) with msg.value = value
SubmitAction(sender, fingerprintHash, value) ==
  /\ Len(calls) < MaxCalls
  /\ IF fingerprintHash = ZeroHash
     THEN Reverts("submitAction", sender, fingerprintHash, value, "InvalidFingerprintHash")
     ELSE IF value < MINIMUM_AMOUNT
     THEN Reverts("submitAction", sender, fingerprintHash, value,
                  "NotEnoughEthRecievedWithTransaction")
     ELSE /\ contract' =
               TrackFingerprint(
                 [contract EXCEPT
                    !.balance = @ + value,
                    !.fingerprintData[fingerprintHash].totalValue = @ + value,
                    !.fingerprintData[fingerprintHash].transactionCount = @ + 1],
                 fingerprintHash)
          /\ calls' = Append(calls, Receipt("submitAction", sender, fingerprintHash,
                                            value, "", 0))
  /\ UNCHANGED <<rows, lastId, clock, expectedApiKey, slots, started, client>>

\* withdrawFunds(); success is the result of payable(owner).call{value:
\* balance}(""), which the code of the owner's account decides (an account
\* without code accepts).  The owner's code is taken to accept or refuse
\* the transfer without calling back into the contract.
WithdrawFunds(sender, success) ==
  /\ Len(calls) < MaxCalls
  /\ IF ~OnlyOwner(contract, sender)
     THEN Reverts("withdrawFunds", sender, ZeroHash, 0, "OnlyOwnerCanCallThisFunction")
     ELSE IF contract.balance = 0
     THEN Reverts("withdrawFunds", sender, ZeroHash, 0, "NoFundsToWithdraw")
     ELSE IF ~success
     THEN Reverts("withdrawFunds", sender, ZeroHash, 0, "WithdrawalFailed")
     ELSE /\ contract' = [contract EXCEPT !.balance = 0]
          /\ calls' = Append(calls, Receipt("withdrawFunds", sender, ZeroHash, 0, "",
                                            contract.balance))
  /\ UNCHANGED <<rows, lastId, clock, expectedApiKey, slots, started, client>>

NextContract ==
  \/ \E sender \in Senders, fingerprintHash \in Hashes, value \in Values :
       SubmitAction(sender, fingerprintHash, value)
  \/ \E sender \in Senders, success \in BOOLEAN : WithdrawFunds(sender, success)

SpecContract == Init /\ [][NextContract]_vars

\* the successful submissions, in the order they were made
Submissions ==
  LET Succeeded(call) == call.fn = "submitAction" /\ call.error = ""
  IN SelectSeq(calls, Succeeded)

RECURSIVE SumOfValues(_, _)
\* the sum of the values of the submissions with fingerprintHash
SumOfValues(submissions, fingerprintHash) ==
  IF submissions = <<>> THEN 0
  ELSE (IF Head(submissions).fingerprintHash = fingerprintHash
        THEN Head(submissions).value ELSE 0)
       + SumOfValues(Tail(submissions), fingerprintHash)

\* the number of submissions with fingerprintHash
CountOf(submissions, fingerprintHash) ==
  Cardinality({i \in 1..Len(submissions) :
                 submissions[i].fingerprintHash = fingerprintHash})

\* the submitted hashes
Submitted == {Submissions[i].fingerprintHash : i \in 1..Len(Submissions)}

\* position of the first submission with fingerprintHash
FirstSubmission(fingerprintHash) ==
  CHOOSE i \in 1..Len(Submissions) :
    /\ Submissions[i].fingerprintHash = fingerprintHash
    /\ \A j \in 1..(i - 1) : Submissions[j].fingerprintHash # fingerprintHash

\* C19: after any sequence of submitAction calls, transactionCount[h] is the
\* number of successful submissions with h and totalValue[h] the sum of
\* their values; fingerprintHashes holds each submitted hash once, in order
\* of first submission; fingerprintExists holds exactly for those hashes;
\* getTotalFingerprints is the number of distinct submitted hashes
C19_SubmitAccounting ==
  LET hashes == GetAllFingerprintHashes(contract)
  IN /\ \A h \in Hashes :
          /\ GetFingerprintData(contract, h) =
               <<SumOfValues(Submissions, h), CountOf(Submissions, h)>>
          /\ contract.fingerprintExists[h] <=> h \in Submitted
     /\ {hashes[i] : i \in 1..Len(hashes)} = Submitted
     /\ \A i, j \in 1..Len(hashes) :
          /\ i # j => hashes[i] # hashes[j]
          /\ i < j => FirstSubmission(hashes[i]) < FirstSubmission(hashes[j])
     /\ GetTotalFingerprints(contract) = Cardinality(Submitted)

\* two hashes have been submitted, the second one first and twice
C19_Witness ==
  /\ GetAllFingerprintHashes(contract) = <<2, 1>>
  /\ GetFingerprintData(contract, 2) = <<5, 2>>
  /\ GetFingerprintData(contract, 1) = <<2, 1>>

\* the step is a call of withdrawFunds
Withdraws == Len(calls') = Len(calls) + 1 /\ calls'[Len(calls')].fn = "withdrawFunds"

\* the per-fingerprint totals and counts and the list of hashes stay as they are
DataUnchanged ==
  /\ contract'.fingerprintData = contract.fingerprintData
  /\ contract'.fingerprintHashes = contract.fingerprintHashes
  /\ contract'.fingerprintExists = contract.fingerprintExists

-----------------------------------------------------------------------------
(* Creation of records *)

\* no stored record has the (fingerprintId, fingerprintHash) pair of the call
NoPairRow(table, data) ==
  \A i \in 1..Len(table) :
    ~(table[i].fingerprint_id = data.fingerprintId
        /\ table[i].fingerprint_hash = data.fingerprintHash)

\* a stored record has the fingerprintId of the call
HasIdRow(table, data) ==
  \E i \in 1..Len(table) : table[i].fingerprint_id = data.fingerprintId

\* p's call has added one record, for its pair, holding its entry alone, with
\* createdAt = updatedAt = now and an id no record had, and has returned
\* that id
CreatedNewRecord(p) ==
  /\ slots'[p].result.state = "ok"
  /\ Len(rows') = Len(rows) + 1
  /\ SubSeq(rows', 1, Len(rows)) = rows
  /\ LET row == rows'[Len(rows')]
     IN /\ row.fingerprint_id = slots[p].data.fingerprintId
        /\ row.fingerprint_hash = slots[p].data.fingerprintHash
        /\ Transactions(row) = <<NewTransaction(slots[p].data)>>
        /\ row.created_at = clock /\ row.updated_at = clock
        /\ slots'[p].result.id = row.id
        /\ \A i \in 1..Len(rows) : rows[i].id # row.id

\* p's call has failed with a storage error that is not DuplicateTransaction
\* and has left the table as it was
FailedInStore(p) ==
  /\ slots'[p].result.state = "error"
  /\ ~Includes(slots'[p].result.error, MsgAlreadyExists)
  /\ slots'[p].resp.status = 500
  /\ rows' = rows /\ lastId' = lastId

\* C21 as stated: a call whose pair no record matches, also when a record
\* with the same fingerprintId and another fingerprintHash exists, creates a
\* record holding its transaction alone and returns the new id
C21_NoMatchCreates ==
  [][\A p \in Procs :
       (AddEnds(p) /\ NoPairRow(rows, slots[p].data)) => CreatedNewRecord(p)]_vars

\* C21: a call whose pair no record matches creates a record holding its
\* transaction alone and returns the new id when no record has its
\* fingerprintId; when a record with the same fingerprintId and another
\* fingerprintHash exists it fails with a storage error and creates nothing
C21_NoMatchCreatesUnlessIdTaken ==
  [][\A p \in Procs :
       (AddEnds(p) /\ NoPairRow(rows, slots[p].data)) =>
         IF HasIdRow(rows, slots[p].data)
         THEN FailedInStore(p) /\ Includes(slots'[p].result.error, MsgUniqueConstraint)
         ELSE CreatedNewRecord(p)]_vars

\* one call has created a record and returned its id, and a call for the
\* same fingerprintId under another hash has failed on the UNIQUE column
C21_Witness ==
  \E p, q \in Procs :
    /\ p # q
    /\ AddSucceeded(p) /\ slots[p].existingRecord = <<>>
    /\ FailedAs(q, MsgUniqueConstraint)
    /\ \E i \in 1..Len(rows) :
         /\ rows[i].id = slots[p].result.id
         /\ rows[i].fingerprint_hash = slots[p].data.fingerprintHash
         /\ rows[i].fingerprint_id = slots[q].data.fingerprintId
         /\ rows[i].fingerprint_hash # slots[q].data.fingerprintHash
    /\ Len(rows) = 1

\* C22: a call that found a record whose stored list does not parse succeeds,
\* and the list of the record afterwards holds the new entry alone
C22_UnparsableStoredListIsEmpty ==
  [][\A p \in Procs :
       (/\ AddEnds(p)
        /\ slots[p].existingRecord # <<>>
        /\ Unparsable(slots[p].existingRecord[1].transactions))
       => /\ slots'[p].result.state = "ok"
          /\ \E i \in 1..Len(rows') :
               /\ rows'[i].id = slots[p].existingRecord[1].id
               /\ Transactions(rows'[i]) = <<NewTransaction(slots[p].data)>>]_vars

-----------------------------------------------------------------------------
(* Order of the records of GET /fingerprints *)

\* the direction a request asks for: ASC or DESC in any case, DESC otherwise
RequestedDirection(query) ==
  IF query.sortOrder \in {"ASC", "asc", "Asc"} THEN "ASC" ELSE "DESC"

\* the records are in the order of the column of their rows, in the direction
OrderedBy(table, data, column, direction) ==
  \A i, j \in 1..Len(data) :
    i < j =>
      IF direction = "ASC"
      THEN ColumnLeq(RowOf(table, data[i]), RowOf(table, data[j]), column)
      ELSE ColumnLeq(RowOf(table, data[j]), RowOf(table, data[i]), column)

\* C23: a list request that names one of the four allow-listed sort fields
\* is answered with records ordered by that field; fingerprintHash is one of
\* them
C23_AllowListedFieldOrders ==
  [][\A p \in Procs :
       (/\ ReadHandled(p)
        /\ slots'[p].kind = "list"
        /\ slots'[p].query.sortBy \in SortAllowList)
       => /\ slots'[p].resp.status = 200
          /\ OrderedBy(rows, slots'[p].resp.data, slots'[p].query.sortBy,
                       RequestedDirection(slots'[p].query))]_vars

-----------------------------------------------------------------------------
(* Frame of the reads *)

\* C24: a request to a read route (list, by hash, by id), with or without
\* the key, leaves every record as it was: id, fingerprintId,
\* fingerprintHash, transactions, createdAt and updatedAt
C24_ReadsLeaveStore ==
  [][\A p \in Procs :
       (Receives(p) /\ slots'[p].kind \in {"list", "byHash", "byId"}) =>
         /\ Len(rows') = Len(rows)
         /\ \A i \in 1..Len(rows) :
              /\ rows'[i].id = rows[i].id
              /\ rows'[i].fingerprint_id = rows[i].fingerprint_id
              /\ rows'[i].fingerprint_hash = rows[i].fingerprint_hash
              /\ rows'[i].transactions = rows[i].transactions
              /\ rows'[i].created_at = rows[i].created_at
              /\ rows'[i].updated_at = rows[i].updated_at
         /\ lastId' = lastId]_vars

\* a list request has returned the three stored records, one of them with
\* its transaction
C24_Witness ==
  \E p \in Procs :
    /\ ListAnswered(slots[p])
    /\ Len(slots[p].resp.data) = 3
    /\ \E i \in 1..3 : slots[p].resp.data[i].transactions = <<StoredEntry>>
    /\ Len(rows) = 3

-----------------------------------------------------------------------------
(* Identity and times of the records *)

\* the ids of the table are pairwise distinct and none is above the counter
DistinctIds(table, counter) ==
  /\ \A i, j \in 1..Len(table) : i # j => table[i].id # table[j].id
  /\ \A i \in 1..Len(table) : table[i].id <= counter

\* C25: no step changes the id, fingerprintId, fingerprintHash or createdAt
\* of a record or removes a record; ids are pairwise distinct; a new record
\* gets an id that was never assigned before
C25_IdentityImmutable ==
  [][/\ Len(rows') >= Len(rows)
     /\ \A i \in 1..Len(rows) :
          /\ rows'[i].id = rows[i].id
          /\ rows'[i].fingerprint_id = rows[i].fingerprint_id
          /\ rows'[i].fingerprint_hash = rows[i].fingerprint_hash
          /\ rows'[i].created_at = rows[i].created_at
     /\ DistinctIds(rows, lastId) /\ DistinctIds(rows', lastId')
     /\ lastId' >= lastId
     /\ \A i \in (Len(rows) + 1)..Len(rows') : rows'[i].id > lastId]_vars

\* a record created before the server started has got a second transaction
\* a second after the start
C25_Witness ==
  \E i \in 1..Len(rows) :
    /\ Len(Transactions(rows[i])) = 2
    /\ rows[i].created_at < 0
    /\ rows[i].updated_at = 1

\* createdAt <= updatedAt for every record of the table
TimesOrdered(table) ==
  \A i \in 1..Len(table) : table[i].created_at <= table[i].updated_at

\* C26: createdAt <= updatedAt for every record in every state; a created
\* record has updatedAt = createdAt; a successful append sets updatedAt of
\* its record to the current time; a failed or duplicate call leaves every
\* updatedAt as it was
C26_UpdatedAt ==
  [][/\ TimesOrdered(rows) /\ TimesOrdered(rows')
     /\ \A p \in Procs :
          AddEnds(p) =>
            /\ (slots'[p].result.state = "ok" /\ slots[p].existingRecord = <<>>) =>
                 /\ Len(rows') = Len(rows) + 1
                 /\ rows'[Len(rows')].updated_at = rows'[Len(rows')].created_at
            /\ (slots'[p].result.state = "ok" /\ slots[p].existingRecord # <<>>) =>
                 \A i \in 1..Len(rows') :
                   rows'[i].id = slots'[p].result.id => rows'[i].updated_at = clock
            /\ (slots'[p].result.state = "error" \/ IsDuplicate(slots[p])) =>
                 /\ Len(rows') = Len(rows)
                 /\ \A i \in 1..Len(rows) : rows'[i].updated_at = rows[i].updated_at]_vars

-----------------------------------------------------------------------------
(* Reads that run while a write is in flight *)

\* the list the transactions column of a row holds
StoredList(row) ==
  IF row.transactions.kind = "json" THEN row.transactions.val ELSE <<>>

\* q's recordTransaction has read the record with this id and has not yet
\* written
WriteInFlight(q, id) ==
  /\ slots[q].pc = "selected"
  /\ slots[q].existingRecord # <<>>
  /\ slots[q].existingRecord[1].id = id

\* the step is a read by p: one of the three read routes, or the
\* getFingerprintById of POST /log
ReadStep(p) ==
  \/ ReadHandled(p)
  \/ slots[p].pc = "written" /\ slots'[p].pc = "done"

\* C27: every record a read returns carries the list its row holds when the
\* read runs: while a recordTransaction on the record is in flight that is
\* the list before its write, after the write it is the list the write
\* stored; a write replaces the list of its record by a complete list in one
\* step
C27_ReadsSeeWholeLists ==
  [][\A p \in Procs :
       /\ (ReadStep(p) /\ slots'[p].resp.success) =>
            \A i \in 1..Len(slots'[p].resp.data) :
              LET record == slots'[p].resp.data[i]
              IN /\ \E k \in 1..Len(rows) : rows[k].id = record.id
                 /\ record.transactions = StoredList(RowOf(rows, record))
       /\ (AddEnds(p) /\ slots'[p].result.state = "ok") =>
            \E k \in 1..Len(rows') :
              /\ rows'[k].id = slots'[p].result.id
              /\ StoredList(rows'[k]) =
                   (IF slots[p].existingRecord = <<>> THEN <<>>
                    ELSE StoredList(slots[p].existingRecord[1]))
                   \o <<NewTransaction(slots[p].data)>>
              /\ \A j \in 1..Len(rows) :
                   j # k => StoredList(rows'[j]) = StoredList(rows[j])]_vars

\* a lookup by id has returned the record with the list it held while a
\* recordTransaction that had read the record had not yet written
C27_Witness ==
  \E p, q \in Procs :
    /\ slots[p].kind = "byId"
    /\ slots[p].resp.status = 200
    /\ WriteInFlight(q, slots[p].resp.data[1].id)
    /\ slots[p].resp.data[1].transactions = <<StoredEntry>>

-----------------------------------------------------------------------------
(* The pages of GET /fingerprints over an unchanged store *)

\* the column the records of a request are ordered by
ResolvedSortField(query) ==
  IF query.sortBy \in {"created_at", "updated_at", "fingerprint_id"}
  THEN query.sortBy
  ELSE "created_at"

\* no two records have the same value in the column
DistinctKeys(table, column) ==
  \A i, j \in 1..Len(table) :
    i # j => ~(ColumnLeq(table[i], table[j], column) /\ ColumnLeq(table[j], table[i], column))

\* the ids of the records of a response
IdsOf(resp) == {resp.data[i].id : i \in 1..Len(resp.data)}

\* the sets of records page k of the request can consist of
PageSets(table, query, k) ==
  {IdsOf(resp) :
     resp \in ListResponses(table, [query EXCEPT !.page = Str(<<DigitChars[k + 1]>>)], TRUE)}

\* whichever result each of the pages 1..totalPages of the request returns
\* over the table, the pages are pairwise disjoint and together hold every
\* record
PagesPartition(table, query) ==
  LET pageSize == JsNumber(IF Truthy(query.limit) THEN query.limit ELSE Num(50)).n
      totalPages == CeilDiv(Len(table), pageSize)
      all == UNION {PageSets(table, query, k) : k \in 1..totalPages}
      choices == {f \in [1..totalPages -> all] :
                    \A k \in 1..totalPages : f[k] \in PageSets(table, query, k)}
  IN \A f \in choices :
       /\ \A k, m \in 1..totalPages : k # m => f[k] \cap f[m] = {}
       /\ UNION {f[k] : k \in 1..totalPages} = {table[i].id : i \in 1..Len(table)}

\* C28 as stated: for the page size, sort field and direction of every list
\* request, the pages 1..totalPages over the store are pairwise disjoint and
\* their union is the set of all records, also when records have equal sort
\* keys
C28_PagesPartition ==
  [][\A p \in Procs :
       (ReadHandled(p) /\ slots'[p].kind = "list") =>
         PagesPartition(rows, slots'[p].query)]_vars

\* C28: for the page size, sort field and direction of every list request,
\* the pages 1..totalPages over the store are pairwise disjoint and their
\* union is the set of all records when no two records have the same value
\* of the sort key
C28_PagesPartitionDistinctKeys ==
  [][\A p \in Procs :
       (/\ ReadHandled(p)
        /\ slots'[p].kind = "list"
        /\ DistinctKeys(rows, ResolvedSortField(slots'[p].query)))
       => PagesPartition(rows, slots'[p].query)]_vars

\* the second of three pages of one record each has been returned from three
\* records of different creation times
C28_Witness ==
  \E p \in Procs :
    /\ ListAnswered(slots[p])
    /\ slots[p].query.page = Str(<<"2">>)
    /\ slots[p].query.limit = Str(<<"1">>)
    /\ slots[p].resp.pagination[1].totalPages = 3
    /\ Len(slots[p].resp.data) = 1
    /\ Len(rows) = 3
    /\ DistinctKeys(rows, "created_at")

-----------------------------------------------------------------------------
(* Two first calls for one fingerprint *)

\* p and q are calls for the same fingerprint with different txHashes whose
\* SELECTs both found no record
BothFoundNothing(p, q) ==
  /\ p # q
  /\ slots[p].kind = "log" /\ Len(slots[p].stages) >= 3
  /\ slots[q].kind = "log" /\ Len(slots[q].stages) >= 3
  /\ slots[p].existingRecord = <<>> /\ slots[q].existingRecord = <<>>
  /\ slots[p].data.fingerprintId = slots[q].data.fingerprintId
  /\ slots[p].data.fingerprintHash = slots[q].data.fingerprintHash
  /\ slots[p].data.transactionHash # slots[q].data.transactionHash

\* the rows of the fingerprintId of the call
RowsOfId(table, data) ==
  {i \in 1..Len(table) : table[i].fingerprint_id = data.fingerprintId}

\* C29: of two overlapping first calls for a never-seen fingerprint with
\* different txHashes the one whose INSERT runs first creates the record;
\* the other fails with a storage error that is not DuplicateTransaction and
\* changes nothing; afterwards exactly one record exists and it holds the
\* entry of every call that returned success
C29_InsertRace ==
  [][\A p, q \in Procs :
       (AddEnds(q) /\ BothFoundNothing(p, q)) =>
         /\ IF HasIdRow(rows, slots[q].data)
            THEN FailedInStore(q) /\ Includes(slots'[q].result.error, MsgUniqueConstraint)
            ELSE CreatedNewRecord(q)
         /\ AddEnded(p) =>
              /\ Cardinality(RowsOfId(rows', slots[q].data)) = 1
              /\ \A i \in RowsOfId(rows', slots[q].data) :
                   /\ AddSucceeded(p) =>
                        HasTxHash(StoredList(rows'[i]), slots[p].data.transactionHash)
                   /\ slots'[q].result.state = "ok" =>
                        HasTxHash(StoredList(rows'[i]), slots[q].data.transactionHash)
              /\ AddSucceeded(p) => slots'[q].result.state = "error"]_vars

\* both calls found no record; one has created it with its entry and the
\* other has been answered 500 for the UNIQUE constraint
C29_Witness ==
  \E p, q \in Procs :
    /\ BothFoundNothing(p, q)
    /\ AddSucceeded(p)
    /\ FailedAs(q, MsgUniqueConstraint)
    /\ slots[q].resp.status = 500
    /\ Len(rows) = 1
    /\ StoredList(rows[1]) = <<NewTransaction(slots[p].data)>>

-----------------------------------------------------------------------------
(* The TrackerDApp component: submitAction on chain, then POST /log, then   *)
(* the fetch by fingerprint hash.  The component and the server exchange    *)
(* requests and responses through the slots; the chain is TrackerContract.  *)

\* visitorData.visitorId, as Fingerprint.com issues it
VisitorId == Rep("d", 20)

\* CryptoJS.SHA256(visitorId).toString(CryptoJS.enc.Hex): 64 lower-case hex
\* digits; the digest of the model's visitor is a fixed one
HashVisitorId(visitorId) == IF visitorId = VisitorId THEN HashA ELSE HashB

\* String.prototype.padStart(n, c) for a one-character pad
PadStart(s, n, c) == IF Len(s) >= n THEN s ELSE Rep(c, n - Len(s)) \o s

\* hexToBytes32: `0x${hexHash.replace('0x', '').padStart(64, '0')}`
HexToBytes32(hexHash) == Prefixed(PadStart(JsReplaceFirst(hexHash, <<"0", "x">>), 64, "0"))

\* getFingerprintHash(visitorId)
GetFingerprintHash(visitorId) == HexToBytes32(HashVisitorId(visitorId))

\* the bytes32 argument of submitAction that the hash of the visitor encodes
FingerprintBytes32 == 1

\* parseEther(TRANSACTION_VALUE), TRANSACTION_VALUE = '0.001'
TRANSACTION_VALUE == 2

\* createAuthHeaders() with NEXT_PUBLIC_API_SECRET_KEY set to the server's key
CreateAuthHeaders == [NoHeaders EXCEPT !.xApiKey = Str(Secret)]

\* handleSubmitAction: reset(), then submitAction(fingerprintHash) asks the
\* wallet to send the transaction
HandleSubmitAction ==
  /\ client.pc = "idle"
  /\ client' = [client EXCEPT !.pc = "submitting"]
  /\ UNCHANGED <<rows, lastId, clock, expectedApiKey, slots, started, contract, calls>>

\* the chain executes the transaction of the component
MineSubmitAction ==
  /\ client.pc = "submitting"
  /\ calls = <<>>
  /\ SubmitAction("user1", FingerprintBytes32, TRANSACTION_VALUE)

\* useTransactionReceipt: the receipt of the mined transaction arrives
UseTransactionReceipt ==
  /\ client.pc = "submitting"
  /\ calls # <<>>
  /\ client' = [client EXCEPT
       !.pc = IF calls[1].error = "" THEN "receipt" ELSE "reverted",
       !.txHash = Str(Tx1)]
  /\ UNCHANGED <<rows, lastId, clock, expectedApiKey, slots, started, contract, calls>>

\* the effect on a successful receipt: builds requestBody and calls
\* logTransaction(requestBody)
LogTransactionToBackend ==
  /\ client.pc = "receipt"
  /\ client' = [client EXCEPT
       !.pc = "logging",
       !.apiCallStatus = "loading",
       !.requestBody =
          <<[fingerprintId |-> Str(VisitorId),
             walletAddress |-> Str(Wallet1),
             transactionHash |-> client.txHash,
             hashedFingerprint |-> Str(GetFingerprintHash(VisitorId)),
             timestamp |-> Str(FormatTimestamp(clock))]>>]
  /\ UNCHANGED <<rows, lastId, clock, expectedApiKey, slots, started, contract, calls>>

\* the slots that hold the component's POST /log
LogSlots ==
  {q \in Procs : client.requestBody # <<>> /\ slots[q].kind = "log"
                   /\ slots[q].body = client.requestBody[1]}

\* the server receives the component's POST /log
ReceiveLogTransaction(p) ==
  /\ client.pc = "logging"
  /\ LogSlots = {}
  /\ PostLog(p, CreateAuthHeaders, client.requestBody[1])

\* logTransactionToBackend after the response: apiCallStatus is success for
\* a 2xx status and error otherwise
HandleLogResponse ==
  /\ client.pc = "logging"
  /\ \E q \in LogSlots :
       /\ slots[q].pc = "done"
       /\ client' = [client EXCEPT
            !.pc = "responded",
            !.apiCallStatus = IF slots[q].resp.status = 201 THEN "success" ELSE "error"]
  /\ UNCHANGED <<rows, lastId, clock, expectedApiKey, slots, started, contract, calls>>

\* fetchWalletData(fingerprintHash): by the timer after a logged transaction,
\* or by the Refresh button
FetchWalletData ==
  /\ client.pc = "responded"
  /\ client' = [client EXCEPT !.pc = "fetching"]
  /\ UNCHANGED <<rows, lastId, clock, expectedApiKey, slots, started, contract, calls>>

\* the slots that hold the component's fetch by hash
FetchSlots ==
  {q \in Procs : slots[q].kind = "byHash"
                   /\ slots[q].param = Str(GetFingerprintHash(VisitorId))}

\* the server receives getFingerprintByHash(hash)
ReceiveFetchWalletData(p) ==
  /\ client.pc = "fetching"
  /\ FetchSlots = {}
  /\ GetByHash(p, CreateAuthHeaders, Str(GetFingerprintHash(VisitorId)))

\* fetchWalletData after the response: walletData is null for a 404 and
\* data.data for a 2xx status
HandleWalletData ==
  /\ client.pc = "fetching"
  /\ \E q \in FetchSlots :
       /\ slots[q].pc = "done"
       /\ client' = [client EXCEPT
            !.pc = "fetched",
            !.walletData = IF slots[q].resp.status = 200 THEN slots[q].resp.data ELSE <<>>]
  /\ UNCHANGED <<rows, lastId, clock, expectedApiKey, slots, started, contract, calls>>

\* a client that follows the documented request format posts before the
\* user of the component submits
OtherClientLog(p, body) ==
  /\ client.pc = "idle"
  /\ started = 0
  /\ PostLog(p, CreateAuthHeaders, body)

NextClient ==
  \/ \E p \in Procs, body \in ValidBodies : OtherClientLog(p, body)
  \/ \E p \in Procs : AddWrite(p)
  \/ \E p \in Procs : PostRespond(p)
  \/ HandleSubmitAction
  \/ MineSubmitAction
  \/ UseTransactionReceipt
  \/ LogTransactionToBackend
  \/ \E p \in Procs : ReceiveLogTransaction(p)
  \/ HandleLogResponse
  \/ FetchWalletData
  \/ \E p \in Procs : ReceiveFetchWalletData(p)
  \/ HandleWalletData
  \/ Tick

\* the event loops of the browser and of the server and the chain run what
\* is pending
SpecClient == Init /\ [][NextClient]_vars /\ WF_vars(NextClient)

\* the component has seen the successful receipt of its transaction
ReceiptSeen == client.pc = "receipt"

\* the record the fetch by hash returned holds the confirmed transaction
ConfirmedListed ==
  /\ client.walletData # <<>>
  /\ HasTxHash(client.walletData[1].transactions, client.txHash)

\* C30: once the component has seen a successful receipt, the request it
\* sends passes validateCreateTransaction and the confirmed transaction
\* eventually is an entry of the record its fetch by hash returns
C30_ConfirmedEventuallyListed ==
  /\ [][\A p \in Procs :
          (client.pc = "logging" /\ Receives(p) /\ slots'[p].kind = "log")
            => slots'[p].pc = "selected"]_vars
  /\ ReceiptSeen ~> ConfirmedListed

====
